---- MODULE Spec2Model ----
(***************************************************************************)
(* Model of the news pipeline of main.py: text normalisation and hashing,  *)
(* the two-tier duplicate detector over the news_items table, the impact    *)
(* score and publish gate, the boot lockout, the Telegram send loop and the *)
(* polling loop of main().                                                  *)
(*                                                                          *)
(* Text is a sequence of one-character strings.  Time is counted in whole   *)
(* minutes (UTC).  sha256 is modelled as an injective function: a hash is   *)
(* the very character sequence that main.py feeds to hashlib.sha256.        *)
(***************************************************************************)
EXTENDS Integers, Sequences, FiniteSets, TLC

(***************************************************************************)
(* Configuration (main.py, CONFIG section)                                  *)
(***************************************************************************)
\* SIM_THRESHOLD = 0.92, kept as the fraction SimNum / SimDen
SimNum == 92
SimDen == 100
\* IMPACT_THRESHOLD = 3.0; scores are multiples of 1.0 and kept as integers
IMPACT_THRESHOLD == 3
BOOT_LOOKBACK_MINUTES == 10
FUZZY_LOOKBACK_MINUTES == 180
\* POLL_SECONDS is an environment setting (default 600 s).  The model runs
\* the bot with a poll interval as long as the fuzzy lookback (10800 s), so
\* that a stored row is exactly on the lookback boundary after one wait and
\* outside of it after two.
PollMinutes == FUZZY_LOOKBACK_MINUTES

(***************************************************************************)
(* Bounds of the model                                                      *)
(***************************************************************************)
\* the clock stops advancing once another wait would pass MaxNow
MaxNow == 380
\* items one feed returns in one cycle
MaxFeedItems == 1
\* send attempts for one message that the model follows
MaxAttempts == 2

\* Optional values: None is the empty sequence, a value v present is <<v>>
None == <<>>
Some(v) == <<v>>

(***************************************************************************)
(* str methods used by main.py                                              *)
(***************************************************************************)
Whitespace == {" ", "\t", "\n"}

UpperToLower ==
  [c \in {"U", "K", "T", "A", "X", "D", "G"} |->
     CASE c = "U" -> "u" [] c = "K" -> "k" [] c = "T" -> "t" [] c = "A" -> "a"
       [] c = "X" -> "x" [] c = "D" -> "d" [] c = "G" -> "g"]

\* str.lower()
Lower(text) ==
  [i \in 1..Len(text) |->
     IF text[i] \in DOMAIN UpperToLower THEN UpperToLower[text[i]] ELSE text[i]]

RECURSIVE LStrip(_)
LStrip(text) ==
  IF text # <<>> /\ Head(text) \in Whitespace THEN LStrip(Tail(text)) ELSE text

RECURSIVE RStrip(_)
RStrip(text) ==
  IF text # <<>> /\ text[Len(text)] \in Whitespace
    THEN RStrip(SubSeq(text, 1, Len(text) - 1))
    ELSE text

\* str.strip()
Strip(text) == RStrip(LStrip(text))

\* length of the leading run of non-whitespace characters
RECURSIVE WordLen(_)
WordLen(text) ==
  IF text = <<>> \/ Head(text) \in Whitespace THEN 0 ELSE 1 + WordLen(Tail(text))

\* str.split() with no separator: the maximal runs of non-whitespace
RECURSIVE Split(_)
Split(text) ==
  IF text = <<>> THEN <<>>
  ELSE IF Head(text) \in Whitespace THEN Split(Tail(text))
  ELSE LET n == WordLen(text)
       IN  <<SubSeq(text, 1, n)>> \o Split(SubSeq(text, n + 1, Len(text)))

\* " ".join(words)
RECURSIVE Join(_)
Join(words) ==
  IF words = <<>> THEN <<>>
  ELSE IF Len(words) = 1 THEN words[1]
  ELSE words[1] \o <<" ">> \o Join(Tail(words))

\* needle in text
Contains(text, needle) ==
  \E i \in 0..(Len(text) - Len(needle)) :
     SubSeq(text, i + 1, i + Len(needle)) = needle

\* normalize_text without the split and join: runs of whitespace are kept
normalize_text_NoCollapse(text) == Strip(Lower(text))

\* main.py normalize_text
normalize_text(text) == Join(Split(Strip(Lower(text))))

\* main.py compute_hash: the argument of sha256, sha256 being injective
compute_hash(title, link) == normalize_text(title) \o <<"|">> \o Strip(link)

(***************************************************************************)
(* difflib.SequenceMatcher(None, a, b).ratio() as is_duplicate uses it      *)
(* (no junk; the autojunk heuristic needs 200 characters)                   *)
(***************************************************************************)
\* length of the common run of a and b that starts behind a[i] and b[j]
RECURSIVE RunLen(_, _, _, _, _, _)
RunLen(a, b, i, j, ahi, bhi) ==
  IF i < ahi /\ j < bhi /\ a[i + 1] = b[j + 1]
    THEN 1 + RunLen(a, b, i + 1, j + 1, ahi, bhi)
    ELSE 0

\* find_longest_match(alo, ahi, blo, bhi) over a[alo+1..ahi], b[blo+1..bhi]:
\* the longest common block, the earliest in a and then the earliest in b
\* among the longest.  <<i, j, k>>: the block is a[i+1..i+k] = b[j+1..j+k].
find_longest_match(a, b, alo, ahi, blo, bhi) ==
  LET run == [p \in (alo..(ahi - 1)) \X (blo..(bhi - 1)) |->
                RunLen(a, b, p[1], p[2], ahi, bhi)]
      best == CHOOSE p \in DOMAIN run :
                 \A q \in DOMAIN run :
                    \/ run[q] < run[p]
                    \/ run[q] = run[p] /\ p[1] < q[1]
                    \/ run[q] = run[p] /\ p[1] = q[1] /\ p[2] <= q[2]
  IN  IF run[best] = 0 THEN <<alo, blo, 0>> ELSE <<best[1], best[2], run[best]>>

\* sum of the sizes of get_matching_blocks()
RECURSIVE MatchCount(_, _, _, _, _, _)
MatchCount(a, b, alo, ahi, blo, bhi) ==
  IF alo >= ahi \/ blo >= bhi THEN 0
  ELSE LET m == find_longest_match(a, b, alo, ahi, blo, bhi)
       IN  IF m[3] = 0 THEN 0
           ELSE m[3] + MatchCount(a, b, alo, m[1], blo, m[2])
                     + MatchCount(a, b, m[1] + m[3], ahi, m[2] + m[3], bhi)

Matches(a, b) == MatchCount(a, b, 0, Len(a), 0, Len(b))

\* ratio() >= SIM_THRESHOLD, where ratio() = 2.0 * matches / (len(a) + len(b))
\* and 1.0 for two empty strings
RatioAtLeastThreshold(a, b) ==
  IF Len(a) + Len(b) = 0 THEN TRUE
  ELSE SimDen * 2 * Matches(a, b) >= SimNum * (Len(a) + Len(b))

(***************************************************************************)
(* Filtering: whitelist / blacklist / impact                                *)
(***************************************************************************)
\* The keyword lists of main.py, cut down to the entries that occur in the
\* texts of the model (Words, Pool, FeedSource).
WHITELIST == {<<"t", "a", "x">>, <<"c", "p", "i">>}
BLACKLIST == {<<"d", "e", "a", "d">>}
UK_HINTS == {<<"u", "k">>}
HIGH_SIGNAL_SOURCES ==
  {<<"g", "o", "v", ".", "u", "k">>,
   <<"t", "h", "e", " ", "g", "u", "a", "r", "d", "i", "a", "n">>}
macro_triggers == {<<"c", "p", "i">>, <<"g", "d", "p">>}

Digits == {"0", "1", "2", "3", "4", "5", "6", "7", "8", "9"}

text_contains_any(text, needles) ==
  LET t == Lower(text) IN \E n \in needles : Contains(t, n)

\* re.search over the title: a digit, "%" or "$" somewhere in it (the third
\* alternative of the pattern, the pound sign as the file spells it, needs
\* characters that no text of the model has)
has_numbers(text) ==
  \E i \in 1..Len(text) : text[i] \in Digits \cup {"%", "$"}

\* f"{title} {source}"
FullText(title, source) == title \o <<" ">> \o source

\* impact_score with a blacklist weight of -1
impact_score_MildBlacklist(item) ==
  LET title == Lower(item.title)
      source == Lower(item.source)
      full == FullText(title, source)
  IN    (IF text_contains_any(full, BLACKLIST) THEN -1 ELSE 0)
      + (IF text_contains_any(full, WHITELIST) THEN 2 ELSE 0)
      + (IF text_contains_any(full, UK_HINTS) THEN 1 ELSE 0)
      + (IF has_numbers(item.title) THEN 1 ELSE 0)
      + (IF \E s \in HIGH_SIGNAL_SOURCES : Contains(source, s) THEN 1 ELSE 0)
      + (IF text_contains_any(full, macro_triggers) THEN 1 ELSE 0)

impact_score(item) ==
  LET title == Lower(item.title)
      source == Lower(item.source)
      full == FullText(title, source)
  IN    (IF text_contains_any(full, BLACKLIST) THEN -3 ELSE 0)
      + (IF text_contains_any(full, WHITELIST) THEN 2 ELSE 0)
      + (IF text_contains_any(full, UK_HINTS) THEN 1 ELSE 0)
      + (IF has_numbers(item.title) THEN 1 ELSE 0)
      + (IF \E s \in HIGH_SIGNAL_SOURCES : Contains(source, s) THEN 1 ELSE 0)
      + (IF text_contains_any(full, macro_triggers) THEN 1 ELSE 0)

\* should_publish with the threshold itself rejected (<= for <)
should_publish_Inclusive(item) ==
  LET full == Lower(FullText(item.title, item.source))
      bl == text_contains_any(full, BLACKLIST)
      wl == text_contains_any(full, WHITELIST)
      score == impact_score(item)
  IN  IF bl /\ ~wl /\ score <= IMPACT_THRESHOLD THEN <<FALSE, score, "blacklist">>
      ELSE IF ~wl /\ score <= IMPACT_THRESHOLD THEN <<FALSE, score, "low_impact">>
      ELSE <<TRUE, score, "ok">>

\* <<ok, score, reason>>
should_publish(item) ==
  LET full == Lower(FullText(item.title, item.source))
      bl == text_contains_any(full, BLACKLIST)
      wl == text_contains_any(full, WHITELIST)
      score == impact_score(item)
  IN  IF bl /\ ~wl /\ score < IMPACT_THRESHOLD THEN <<FALSE, score, "blacklist">>
      ELSE IF ~wl /\ score < IMPACT_THRESHOLD THEN <<FALSE, score, "low_impact">>
      ELSE <<TRUE, score, "ok">>

(***************************************************************************)
(* Database and dedup                                                       *)
(***************************************************************************)
\* rows of news_items: [hash, title, link, created_at]
StoreHashes(rows) == {r.hash : r \in rows}

\* SELECT 1 FROM news_items WHERE hash = ?
ExactHit(rows, item) == compute_hash(item.title, item.link) \in StoreHashes(rows)

\* the recent titles with a row on the cutoff left out (> for >=)
RecentTitles_Strict(rows, t) ==
  {r.title : r \in {q \in rows : q.created_at > t - FUZZY_LOOKBACK_MINUTES}}

\* SELECT_RECENT_TITLES_SQL with cutoff = utcnow() - FUZZY_LOOKBACK_MINUTES
RecentTitles(rows, t) ==
  {r.title : r \in {q \in rows : q.created_at >= t - FUZZY_LOOKBACK_MINUTES}}

FuzzyHit(rows, item, t) ==
  \E existing \in RecentTitles(rows, t) :
     RatioAtLeastThreshold(normalize_text(item.title), normalize_text(existing))

\* is_duplicate without its exact tier
is_duplicate_FuzzyOnly(rows, item, t) == FuzzyHit(rows, item, t)

\* is_duplicate, when both queries succeed
is_duplicate(rows, item, t) == ExactHit(rows, item) \/ FuzzyHit(rows, item, t)

\* store_item on a table whose hash column is not UNIQUE
store_item_NoUnique(rows, item, t, writeOk) ==
  IF writeOk
    THEN rows \cup {[hash |-> compute_hash(item.title, item.link),
                     title |-> item.title, link |-> item.link, created_at |-> t]}
    ELSE rows

\* store_item: the INSERT fails on a hash that is already there (UNIQUE) or,
\* with writeOk false, on a database fault; either way the exception is
\* swallowed and the table is left as it was.
store_item(rows, item, t, writeOk) ==
  LET h == compute_hash(item.title, item.link)
  IN  IF writeOk /\ h \notin StoreHashes(rows)
        THEN rows \cup {[hash |-> h, title |-> item.title, link |-> item.link,
                         created_at |-> t]}
        ELSE rows

(***************************************************************************)
(* RSS fetching                                                             *)
(***************************************************************************)
\* RSS_FEEDS, two of them, with the channel title each one reports
Feeds == <<"f1", "f2">>
FeedSource ==
  [f \in {"f1", "f2"} |->
     IF f = "f1" THEN <<"g", "o", "v", ".", "u", "k">> ELSE <<"b", "l", "o", "g">>]

\* pubDate as parsed: absent, or a wall-clock minute with an optional UTC
\* offset (utcoffset = None: a naive datetime)
Naive(wall) == Some([wall |-> wall, utcoffset |-> None])
Aware(wall, off) == Some([wall |-> wall, utcoffset |-> Some(off)])

\* <item> elements a feed can carry: title, link, pubDate (title and link are
\* stripped and non-empty, as fetch_rss_feed leaves them)
Pool ==
  { [title |-> <<"U", "K", " ", " ", "T", "a", "x">>, link |-> <<"a">>,
     published |-> Aware(70, 60)],
    [title |-> <<"u", "k", " ", "t", "a", "x", "5">>, link |-> <<"b">>,
     published |-> Naive(400)],
    [title |-> <<"g", "d", "p">>, link |-> <<"b">>,
     published |-> None] }

\* a fetch or parse that failed: fetch_rss_feed logs it and returns no items
Failed == [ok |-> FALSE, list |-> <<>>]
Fetched(list) == [ok |-> TRUE, list |-> list]

\* what fetch_rss_feed can return for one feed: nothing after a failed fetch
\* or parse, else a list of NewsItem with the feed's channel title as source
FeedResults(f) ==
  {Failed} \cup
  { Fetched(list) :
      list \in UNION { [1..n -> {[title |-> e.title, link |-> e.link,
                                  source |-> FeedSource[f],
                                  published |-> e.published] : e \in Pool}]
                       : n \in 0..MaxFeedItems } }

\* all_items: the lists of the feeds that succeeded, in feed order
RECURSIVE Gather(_, _)
Gather(res, k) ==
  IF k > Len(Feeds) THEN <<>>
  ELSE res[Feeds[k]].list \o Gather(res, k + 1)

\* the seen-set loop of fetch_all_feeds: first occurrence of each (title, link)
RECURSIVE Unique(_, _)
Unique(all, seen) ==
  IF all = <<>> THEN <<>>
  ELSE LET key == <<Head(all).title, Head(all).link>>
       IN  IF key \in seen THEN Unique(Tail(all), seen)
           ELSE <<Head(all)>> \o Unique(Tail(all), seen \cup {key})

\* fetch_all_feeds giving up on every feed when one of them failed
fetch_all_feeds_AllOrNothing(res) ==
  IF \E f \in DOMAIN res : ~res[f].ok THEN <<>> ELSE Unique(Gather(res, 1), {})

fetch_all_feeds(res) == Unique(Gather(res, 1), {})

(***************************************************************************)
(* Main loop                                                                *)
(***************************************************************************)
_normalize_published_dt(dt) ==
  IF dt = None THEN None
  ELSE IF dt[1].utcoffset = None THEN Some(dt[1].wall)
  ELSE Some(dt[1].wall - dt[1].utcoffset[1])

\* a sort key that puts an item without publication time behind every other
SortKey_NoneLast(item, t) ==
  IF item.published = None THEN 1000000 ELSE item.published[1]

\* key of items.sort: x.published or datetime.now(timezone.utc)
SortKey(item, t) == IF item.published = None THEN t ELSE item.published[1]

\* list.sort is stable: an element goes behind every element whose key is
\* not greater than its own
RECURSIVE InsertSorted(_, _, _)
InsertSorted(sorted, item, t) ==
  IF sorted = <<>> THEN <<item>>
  ELSE IF SortKey(sorted[Len(sorted)], t) <= SortKey(item, t)
         THEN Append(sorted, item)
         ELSE Append(InsertSorted(SubSeq(sorted, 1, Len(sorted) - 1), item, t),
                     sorted[Len(sorted)])

RECURSIVE StableSort(_, _)
StableSort(list, t) ==
  IF list = <<>> THEN <<>>
  ELSE InsertSorted(StableSort(SubSeq(list, 1, Len(list) - 1), t),
                    list[Len(list)], t)

\* lines 511-514 of process_news_cycle
Prepare(fetched, t) ==
  StableSort([i \in 1..Len(fetched) |->
                [fetched[i] EXCEPT !.published = _normalize_published_dt(@)]], t)

VARIABLES
  now,             \* the clock, minutes UTC
  BOT_STARTED_AT,  \* captured when the module is loaded
  target,          \* TRUE iff resolve_channel_target yields a chat id or username
  store,           \* the rows of news_items
  stop_event,      \* asyncio.Event of main
  pc,              \* where main is: "loop", "eval", "send", "backoff", "wait",
                   \*   "closed"
  items,           \* the sorted list process_news_cycle iterates over
  idx,             \* position of the for loop in items
  attempts,        \* failed attempts of send_message_with_retry for this message,
                   \*   counted as far as MaxAttempts
  watch,           \* the (title, link) whose history is recorded, if any
  outcome,         \* how the last evaluation of the watched (title, link) ended
  ev,              \* what the last step did, and to which item
  gateWords,       \* publish gate on its own: the words of the title,
  gateSource,      \*   the source,
  gateResult,      \*   and what should_publish returned, once it has run
  textIn,          \* normalize_text and compute_hash on their own: two
                   \*   (title, link) pairs as they are handed in,
  textOut          \*   and what the functions returned, once they have run

botVars == <<now, BOT_STARTED_AT, target, store, stop_event, pc, items, idx,
             attempts, watch, outcome, ev>>
gateVars == <<gateWords, gateSource, gateResult>>
textVars == <<textIn, textOut>>
pureVars == <<gateVars, textVars>>
vars == <<botVars, gateVars, textVars>>

Keys == {<<e.title, e.link>> : e \in Pool}
KeyOf(item) == <<item.title, item.link>>

\* kind: the branch taken; item: the item it was taken for; prev: the outcome
\* recorded for the item before the step (if it is the watched one);
\* fault: an INSERT or SELECT of the step failed on a database fault;
\* feeds: what the fetches of the step returned, feed by feed
NoEvent ==
  [kind |-> "start", item |-> None, prev |-> "none", fault |-> FALSE,
   feeds |-> None]
Event(kind, item, fault) ==
  [kind |-> kind, item |-> Some(item),
   prev |-> IF Some(KeyOf(item)) = watch THEN outcome ELSE "none",
   fault |-> fault, feeds |-> None]
Record(item, result) == IF Some(KeyOf(item)) = watch THEN result ELSE outcome

Cur == items[idx]
InLoop == pc = "eval" /\ idx <= Len(items)

\* the boot lockout test, lines 527-529
boot_cutoff == BOT_STARTED_AT - BOOT_LOOKBACK_MINUTES
\* the lockout test with a missing publication time taken for an old one
LockedOut_NoneIsOld(item) ==
  item.published = None \/ item.published[1] < boot_cutoff

LockedOut(item) == item.published # None /\ item.published[1] < boot_cutoff

\* the for loop steps to the next item, or the cycle returns to main
Advance ==
  /\ idx' = idx + 1
  /\ pc' = IF idx + 1 <= Len(items) THEN "eval" ELSE "wait"

InitBot ==
  /\ now = 2 * BOOT_LOOKBACK_MINUTES
  /\ BOT_STARTED_AT = now
  /\ target \in BOOLEAN
  /\ store = {}
  /\ stop_event = FALSE
  /\ pc = "loop"
  /\ items = <<>>
  /\ idx = 1
  /\ attempts = 0
  /\ outcome = "none"
  /\ ev = NoEvent

NoText == [title1 |-> <<>>, link1 |-> <<>>, title2 |-> <<>>, link2 |-> <<>>]

InitNoGate ==
  /\ gateWords = {}
  /\ gateSource = <<>>
  /\ gateResult = None
  /\ textIn = NoText
  /\ textOut = None

\* the bot, no history recorded
Init == InitBot /\ watch = None /\ InitNoGate

\* the bot, with the history of one (title, link) recorded
InitHistory == InitBot /\ watch \in {Some(k) : k \in Keys} /\ InitNoGate

\* main: the while test passes; process_news_cycle fetches, normalises and
\* sorts (lines 507-516)
Fetch ==
  /\ pc = "loop" /\ ~stop_event
  /\ \E res \in [{"f1", "f2"} -> UNION {FeedResults(f) : f \in {"f1", "f2"}}] :
       /\ \A f \in {"f1", "f2"} : res[f] \in FeedResults(f)
       /\ items' = Prepare(fetch_all_feeds(res), now)
       /\ ev' = [NoEvent EXCEPT !.kind = "fetch", !.feeds = Some(res)]
  /\ idx' = 1
  /\ pc' = IF items' = <<>> THEN "wait" ELSE "eval"
  /\ attempts' = 0
  /\ UNCHANGED pureVars
  /\ UNCHANGED <<now, BOT_STARTED_AT, target, store, stop_event, watch, outcome>>

\* lines 519-524: an item without title or link, or a duplicate, is passed over
Skip ==
  /\ InLoop
  /\ \/ Cur.title = <<>> \/ Cur.link = <<>>
     \/ is_duplicate(store, Cur, now)
  /\ ev' = Event(IF Cur.title = <<>> \/ Cur.link = <<>> THEN "skip_empty"
                 ELSE IF ExactHit(store, Cur) THEN "dup_exact" ELSE "dup_fuzzy",
                 Cur, FALSE)
  /\ outcome' = IF ev'.kind = "dup_fuzzy" THEN Record(Cur, "fuzzy") ELSE outcome
  /\ Advance
  /\ UNCHANGED pureVars
  /\ UNCHANGED <<now, BOT_STARTED_AT, target, store, stop_event, items,
                 attempts, watch>>

\* a query of is_duplicate raises (database unavailable): the exception leaves
\* process_news_cycle and is logged by main, lines 573-574
DupRaise ==
  /\ InLoop
  /\ Cur.title # <<>> /\ Cur.link # <<>>
  /\ pc' = "wait"
  /\ ev' = Event("raise", Cur, TRUE)
  /\ UNCHANGED pureVars
  /\ UNCHANGED <<now, BOT_STARTED_AT, target, store, stop_event, items, idx,
                 attempts, watch, outcome>>

\* the for loop without its call of is_duplicate
PassedDedup_NoCheck ==
  /\ InLoop
  /\ Cur.title # <<>> /\ Cur.link # <<>>

PassedDedup ==
  /\ InLoop
  /\ Cur.title # <<>> /\ Cur.link # <<>>
  /\ ~is_duplicate(store, Cur, now)

\* lines 527-533
BootLockout ==
  /\ PassedDedup
  /\ LockedOut(Cur)
  /\ \E writeOk \in BOOLEAN :
       /\ store' = store_item(store, Cur, now, writeOk)
       /\ ev' = Event("lockout", Cur, ~writeOk)
  /\ outcome' = Record(Cur, "lockout")
  /\ Advance
  /\ UNCHANGED pureVars
  /\ UNCHANGED <<now, BOT_STARTED_AT, target, stop_event, items, attempts, watch>>

\* lines 535-539
GateReject ==
  /\ PassedDedup
  /\ ~LockedOut(Cur)
  /\ ~should_publish(Cur)[1]
  /\ \E writeOk \in BOOLEAN :
       /\ store' = store_item(store, Cur, now, writeOk)
       /\ ev' = Event("reject", Cur, ~writeOk)
  /\ outcome' = Record(Cur, "rejected")
  /\ Advance
  /\ UNCHANGED pureVars
  /\ UNCHANGED <<now, BOT_STARTED_AT, target, stop_event, items, attempts, watch>>

\* lines 541-543: the message is built and send_message_with_retry is entered
GateAccept ==
  /\ PassedDedup
  /\ ~LockedOut(Cur)
  /\ should_publish(Cur)[1]
  /\ pc' = "send"
  /\ attempts' = 0
  /\ ev' = Event("post", Cur, FALSE)
  /\ UNCHANGED pureVars
  /\ UNCHANGED <<now, BOT_STARTED_AT, target, store, stop_event, items, idx,
                 watch, outcome>>

\* send_message_with_retry returns and line 544 stores the item
AfterSend(kind, result) ==
  /\ \E writeOk \in BOOLEAN :
       /\ store' = store_item(store, Cur, now, writeOk)
       /\ ev' = Event(kind, Cur, ~writeOk)
  /\ outcome' = Record(Cur, result)
  /\ Advance
  /\ UNCHANGED pureVars
  /\ UNCHANGED <<now, BOT_STARTED_AT, target, stop_event, items, attempts, watch>>

\* lines 475-478: no target, the function returns without sending
SendNoTarget ==
  /\ pc = "send" /\ ~target
  /\ AfterSend("no_target", "abandoned")

\* lines 479-480
SendOk ==
  /\ pc = "send" /\ target
  /\ AfterSend("sent", "delivered")

\* a failed attempt is counted, as far as MaxAttempts
CountAttempt == IF attempts < MaxAttempts THEN attempts + 1 ELSE attempts

\* lines 481-484: RetryAfter, the function sleeps before the next attempt
SendRetryAfter ==
  /\ pc = "send" /\ target
  /\ attempts' = CountAttempt
  /\ pc' = "backoff"
  /\ ev' = Event("retry_after", Cur, FALSE)
  /\ UNCHANGED pureVars
  /\ UNCHANGED <<now, BOT_STARTED_AT, target, store, stop_event, items,
                 idx, watch, outcome>>

\* lines 485-487: TimedOut or NetworkError, the function sleeps 5 s before
\* the next attempt
SendTransient ==
  /\ pc = "send" /\ target
  /\ attempts' = CountAttempt
  /\ pc' = "backoff"
  /\ ev' = Event("transient", Cur, FALSE)
  /\ UNCHANGED pureVars
  /\ UNCHANGED <<now, BOT_STARTED_AT, target, store, stop_event, items,
                 idx, watch, outcome>>

\* lines 473, 484, 487: the sleep is over, while True runs the next attempt
Backoff ==
  /\ pc = "backoff"
  /\ pc' = "send"
  /\ UNCHANGED pureVars
  /\ UNCHANGED <<now, BOT_STARTED_AT, target, store, stop_event, items, idx,
                 attempts, watch, outcome, ev>>

\* any other exception handled like a transient one: sleep and try again
SendUnexpected_Retry ==
  /\ pc = "send" /\ target
  /\ attempts' = CountAttempt
  /\ pc' = "backoff"
  /\ ev' = Event("send_error", Cur, FALSE)
  /\ UNCHANGED pureVars
  /\ UNCHANGED <<now, BOT_STARTED_AT, target, store, stop_event, items,
                 idx, watch, outcome>>

\* lines 488-490: any other exception ends the attempts
SendUnexpected ==
  /\ pc = "send" /\ target
  /\ AfterSend("send_error", "abandoned")

\* lines 576-579: wait_for times out after the poll interval (the locals of
\* the cycle that returned are dropped here)
WaitTimeout ==
  /\ pc = "wait" /\ ~stop_event
  /\ now + PollMinutes <= MaxNow
  /\ now' = now + PollMinutes
  /\ pc' = "loop"
  /\ items' = <<>> /\ idx' = 1 /\ attempts' = 0
  /\ ev' = [NoEvent EXCEPT !.kind = "timeout"]
  /\ UNCHANGED pureVars
  /\ UNCHANGED <<BOT_STARTED_AT, target, store, stop_event, watch, outcome>>

\* lines 576-577: stop_event.wait() returns
WaitStopped ==
  /\ pc = "wait" /\ stop_event
  /\ pc' = "loop"
  /\ items' = <<>> /\ idx' = 1 /\ attempts' = 0
  /\ ev' = [NoEvent EXCEPT !.kind = "woken"]
  /\ UNCHANGED pureVars
  /\ UNCHANGED <<now, BOT_STARTED_AT, target, store, stop_event, watch, outcome>>

\* lines 570, 580-582: the while test fails, the connection is closed
Close ==
  /\ pc = "loop" /\ stop_event
  /\ pc' = "closed"
  /\ ev' = [NoEvent EXCEPT !.kind = "close"]
  /\ UNCHANGED pureVars
  /\ UNCHANGED <<now, BOT_STARTED_AT, target, store, stop_event, items, idx,
                 attempts, watch, outcome>>

\* handle_signal, lines 557-559
Signal ==
  /\ pc # "closed" /\ ~stop_event
  /\ stop_event' = TRUE
  /\ UNCHANGED pureVars
  /\ UNCHANGED <<now, BOT_STARTED_AT, target, store, pc, items, idx, attempts,
                 watch, outcome, ev>>

\* the process is started again on the same DB_PATH: line 45 runs anew
Restart ==
  /\ pc = "closed"
  /\ BOT_STARTED_AT' = now
  /\ stop_event' = FALSE
  /\ pc' = "loop"
  /\ ev' = [NoEvent EXCEPT !.kind = "restart"]
  /\ UNCHANGED pureVars
  /\ UNCHANGED <<now, target, store, items, idx, attempts, watch, outcome>>

Next ==
  \/ Fetch \/ Skip \/ DupRaise \/ BootLockout \/ GateReject \/ GateAccept
  \/ SendNoTarget \/ SendOk \/ SendRetryAfter \/ SendTransient \/ Backoff
  \/ SendUnexpected \/ WaitTimeout \/ WaitStopped \/ Close \/ Signal \/ Restart

Spec == Init /\ [][Next]_vars

SpecHistory == InitHistory /\ [][Next]_vars

\* the steps of send_message_with_retry
SendStep ==
  \/ SendNoTarget \/ SendOk \/ SendRetryAfter \/ SendTransient \/ Backoff
  \/ SendUnexpected

\* the steps of main once stop_event is set and no cycle is running
StopStep == WaitStopped \/ Close

\* the bot under an event loop that keeps running a coroutine that is ready:
\* a call of send_message_with_retry goes on, and main, woken by stop_event,
\* leaves its loop
SpecLive == Init /\ [][Next]_vars /\ WF_vars(SendStep) /\ WF_vars(StopStep)

(***************************************************************************)
(* The publish gate on its own: should_publish applied to an item whose     *)
(* title is made of a chosen set of words                                   *)
(***************************************************************************)
Words ==
  << <<"d", "e", "a", "d">>, <<"t", "a", "x">>, <<"u", "k">>, <<"5">>,
     <<"g", "d", "p">>, <<"c", "p", "i">>, <<"r", "a", "i", "n">> >>

GateSources ==
  { <<"g", "o", "v", ".", "u", "k">>,
    <<"T", "h", "e", " ", "G", "u", "a", "r", "d", "i", "a", "n">>,
    <<"b", "l", "o", "g">> }

\* the chosen words in the order of Words, one space between two of them
RECURSIVE TitleOf(_, _)
TitleOf(chosen, k) ==
  IF k > Len(Words) THEN <<>>
  ELSE LET rest == TitleOf(chosen, k + 1)
       IN  IF Words[k] \notin chosen THEN rest
           ELSE IF rest = <<>> THEN Words[k]
           ELSE Words[k] \o <<" ">> \o rest

GateItem(chosen, source) ==
  [title |-> TitleOf(chosen, 1), link |-> <<"a">>, source |-> source,
   published |-> None]

InitGate ==
  /\ InitBot /\ watch = None
  /\ gateWords \in SUBSET {Words[k] : k \in 1..Len(Words)}
  /\ gateSource \in GateSources
  /\ gateResult = None
  /\ textIn = NoText /\ textOut = None

GateEvaluate ==
  /\ gateResult = None
  /\ gateResult' = Some(should_publish(GateItem(gateWords, gateSource)))
  /\ UNCHANGED <<gateWords, gateSource, botVars, textVars>>

NextGate == GateEvaluate

SpecGate == InitGate /\ [][NextGate]_vars

(***************************************************************************)
(* store_item on its own: called for any item at any time, whatever the     *)
(* table holds                                                              *)
(***************************************************************************)
\* the (title, link) pairs of Pool and one more whose title differs from a
\* Pool title in case and spacing only, so that both have one hash
StoreItems ==
  { [title |-> k[1], link |-> k[2], source |-> FeedSource["f2"],
     published |-> None] :
      k \in Keys \cup {<< <<"u", "k", " ", "t", "a", "x">>, <<"a">> >>} }

StoreCall ==
  /\ \E item \in StoreItems, writeOk \in BOOLEAN :
       /\ store' = store_item(store, item, now, writeOk)
       /\ ev' = Event("store", item, ~writeOk)
  /\ UNCHANGED pureVars
  /\ UNCHANGED <<now, BOT_STARTED_AT, target, stop_event, pc, items, idx,
                 attempts, watch, outcome>>

\* time passes between two calls
StoreTick ==
  /\ now + PollMinutes <= MaxNow
  /\ now' = now + PollMinutes
  /\ ev' = [NoEvent EXCEPT !.kind = "timeout"]
  /\ UNCHANGED pureVars
  /\ UNCHANGED <<BOT_STARTED_AT, target, store, stop_event, pc, items, idx,
                 attempts, watch, outcome>>

NextStore == StoreCall \/ StoreTick

SpecStore == Init /\ [][NextStore]_vars

(***************************************************************************)
(* The sort of process_news_cycle on its own: lines 511-514 applied to any  *)
(* list fetch_all_feeds can return                                          *)
(***************************************************************************)
MaxSortLen == 3

\* items as fetched: two with one publication time (given with and without
\* UTC offset), two without publication time, one dated in the future
SortPool ==
  { [title |-> <<"a">>, link |-> <<"a">>, source |-> FeedSource["f1"],
     published |-> Aware(70, 60)],
    [title |-> <<"b">>, link |-> <<"a">>, source |-> FeedSource["f1"],
     published |-> Naive(10)],
    [title |-> <<"c">>, link |-> <<"a">>, source |-> FeedSource["f2"],
     published |-> None],
    [title |-> <<"d">>, link |-> <<"a">>, source |-> FeedSource["f2"],
     published |-> None],
    [title |-> <<"e">>, link |-> <<"a">>, source |-> FeedSource["f2"],
     published |-> Naive(400)] }

\* the lists of distinct items fetch_all_feeds can return
SortInputs ==
  UNION { {l \in [1..n -> SortPool] : \A i, j \in 1..n : l[i] = l[j] => i = j}
          : n \in 0..MaxSortLen }

SortCall ==
  /\ pc = "loop"
  /\ \E fetched \in SortInputs :
       /\ items' = Prepare(fetched, now)
       /\ ev' = [NoEvent EXCEPT !.kind = "sort", !.feeds = Some(fetched)]
  /\ idx' = 1
  /\ pc' = IF items' = <<>> THEN "wait" ELSE "eval"
  /\ UNCHANGED pureVars
  /\ UNCHANGED <<now, BOT_STARTED_AT, target, store, stop_event, attempts,
                 watch, outcome>>

NextSort == SortCall

SpecSort == Init /\ [][NextSort]_vars

(***************************************************************************)
(* normalize_text and compute_hash on their own, applied to two (title,     *)
(* link) pairs                                                              *)
(***************************************************************************)
MaxTextLen == 4

TextAlphabet == {"A", "a", " ", "\t"}

\* every string over TextAlphabet of at most MaxTextLen characters
Texts == UNION {[1..n -> TextAlphabet] : n \in 0..MaxTextLen}

\* the second title: spellings of "a a" and of other titles
OtherTitles ==
  { <<>>, <<"a", " ", "a">>, <<"A", "\t", " ", "a", "\n">>, <<"a", "a">> }

RawLinks == { <<"x">>, <<" ", "x", "\n">>, <<"y">> }

InitText ==
  /\ InitBot /\ watch = None
  /\ gateWords = {} /\ gateSource = <<>> /\ gateResult = None
  /\ textIn \in [title1 : Texts, link1 : RawLinks,
                  title2 : OtherTitles, link2 : RawLinks]
  /\ textOut = None

TextEvaluate ==
  /\ textOut = None
  /\ textOut' =
       Some([norm1  |-> normalize_text(textIn.title1),
             again1 |-> normalize_text(normalize_text(textIn.title1)),
             norm2  |-> normalize_text(textIn.title2),
             hash1  |-> compute_hash(textIn.title1, textIn.link1),
             hash2  |-> compute_hash(textIn.title2, textIn.link2)])
  /\ UNCHANGED <<textIn, botVars, gateVars>>

NextText == TextEvaluate

SpecText == InitText /\ [][NextText]_vars

(***************************************************************************)
(* Properties                                                               *)
(***************************************************************************)
EvItem == ev.item[1]
Watched(item) == Some(KeyOf(item)) = watch

\* a and b have a similarity ratio at or above SIM_THRESHOLD, as is_duplicate
\* measures it
Similar(a, b) == RatioAtLeastThreshold(normalize_text(a), normalize_text(b))

\* rows of other items than the given one
OtherRows(item) == {r \in store : r.hash # compute_hash(item.title, item.link)}
Recent(r) == r.created_at >= now - FUZZY_LOOKBACK_MINUTES

\* C1: an item whose delivery succeeded is never handed to
\* send_message_with_retry again when a later cycle fetches it with the same
\* title and link.
C1_NeverSentTwice ==
  ~(pc = "send" /\ Watched(Cur) /\ outcome = "delivered")

\* C2: whenever an item is in the hands of send_message_with_retry, its hash
\* is not in news_items; this holds in every cycle, also after a restart.
C2_StoredNeverSent ==
  pc = "send" => ~ExactHit(store, Cur)

\* C2 witness: after a restart (BOT_STARTED_AT re-captured later than at the
\* first start) an item whose hash is stored was fetched and passed over.
C2_Witness ==
  /\ ev.kind = "dup_exact"
  /\ BOT_STARTED_AT > 2 * BOOT_LOOKBACK_MINUTES

\* C3 as claimed: an item is never posted while some stored title, however
\* old its row, has a similarity ratio at or above SIM_THRESHOLD with its
\* title.
C3_AnyStoredTitleSuppresses ==
  ev.kind = "post" => \A r \in store : ~Similar(EvItem.title, r.title)

\* C3 amended: an item with a similarity ratio at or above SIM_THRESHOLD to a
\* title stored within the last FUZZY_LOOKBACK_MINUTES never passes the dedup
\* check (it is neither posted, rejected by the gate nor locked out), and an
\* item reported as a duplicate has its hash stored or such a recent similar
\* title stored.
C3_RecentSimilarSuppresses ==
  /\ ev.kind \in {"post", "reject", "lockout"} =>
       \A r \in OtherRows(EvItem) : Recent(r) => ~Similar(EvItem.title, r.title)
  /\ ev.kind = "dup_fuzzy" =>
       /\ ~ExactHit(store, EvItem)
       /\ \E r \in store : Recent(r) /\ Similar(EvItem.title, r.title)
  /\ ev.kind = "dup_exact" => ExactHit(store, EvItem)

\* C3 witness: an item was suppressed by a title of another hash whose row is
\* exactly FUZZY_LOOKBACK_MINUTES old.
C3_Witness ==
  /\ ev.kind = "dup_fuzzy"
  /\ \E r \in store : /\ r.created_at = now - FUZZY_LOOKBACK_MINUTES
                      /\ Similar(EvItem.title, r.title)
  /\ \A r \in store : Similar(EvItem.title, r.title) => ~(r.created_at > now - FUZZY_LOOKBACK_MINUTES)

\* C4: an item suppressed by the fuzzy tier has its row in news_items once it
\* was passed over, and is never handed to send_message_with_retry later.
C4_FuzzyRecordedNeverSent ==
  /\ ev.kind = "dup_fuzzy" => ExactHit(store, EvItem)
  /\ ~(pc = "send" /\ Watched(Cur) /\ outcome = "fuzzy")

\* C5: an item that passed the dedup check with a publication time before
\* BOT_STARTED_AT - BOOT_LOOKBACK_MINUTES is not sent and has its row in
\* news_items once the loop has moved past it.
C5_LockedOutStoredNotSent ==
  /\ ev.kind \in {"post", "reject"} => ~LockedOut(EvItem)
  /\ ev.kind = "lockout" => pc # "send" /\ ExactHit(store, EvItem)

\* C6: an item without publication time is never locked out; having passed
\* the dedup check it is handed to send_message_with_retry if should_publish
\* accepts it and recorded as rejected if not.
C6_NoTimestampNoLockout ==
  (ev.item # None /\ EvItem.published = None) =>
     /\ ev.kind # "lockout"
     /\ ev.kind = "post" => should_publish(EvItem)[1] /\ pc = "send"
     /\ ev.kind = "reject" => ~should_publish(EvItem)[1] /\ pc # "send"

\* C6 witness: after a restart that moved the boot cutoff past the first
\* start, an item without publication time was posted.
C6_Witness ==
  /\ ev.kind = "post" /\ EvItem.published = None
  /\ boot_cutoff > 2 * BOOT_LOOKBACK_MINUTES

\* the signals of the gate, read off the chosen words and the source
SigBlacklist == <<"d", "e", "a", "d">> \in gateWords
SigWhitelist == <<"t", "a", "x">> \in gateWords \/ <<"c", "p", "i">> \in gateWords
SigUk == <<"u", "k">> \in gateWords \/ gateSource = <<"g", "o", "v", ".", "u", "k">>
SigNumber == <<"5">> \in gateWords
SigSource == gateSource # <<"b", "l", "o", "g">>
SigMacro == <<"g", "d", "p">> \in gateWords \/ <<"c", "p", "i">> \in gateWords

SigScore ==
    (IF SigBlacklist THEN -3 ELSE 0) + (IF SigWhitelist THEN 2 ELSE 0)
  + (IF SigUk THEN 1 ELSE 0) + (IF SigNumber THEN 1 ELSE 0)
  + (IF SigSource THEN 1 ELSE 0) + (IF SigMacro THEN 1 ELSE 0)

\* C7: should_publish returns (False, score, "blacklist") with a blacklist
\* hit, no whitelist hit and score < IMPACT_THRESHOLD, else (False, score,
\* "low_impact") with no whitelist hit and score < IMPACT_THRESHOLD, else
\* (True, score, "ok"); score is the sum of the weights of the signals.
C7_GateDecision ==
  gateResult # None =>
    gateResult[1] =
      IF SigBlacklist /\ ~SigWhitelist /\ SigScore < IMPACT_THRESHOLD
        THEN <<FALSE, SigScore, "blacklist">>
      ELSE IF ~SigWhitelist /\ SigScore < IMPACT_THRESHOLD
        THEN <<FALSE, SigScore, "low_impact">>
      ELSE <<TRUE, SigScore, "ok">>

\* C7 witness: an item without whitelist hit whose score is exactly
\* IMPACT_THRESHOLD was accepted.
C7_Witness ==
  /\ gateResult # None
  /\ ~SigWhitelist /\ SigScore = IMPACT_THRESHOLD
  /\ gateResult[1][1]

\* C8: an item rejected by the gate has its row in news_items once the loop
\* has moved past it and is not sent; should_publish never sees it again.
C8_RejectedStoredNeverRescored ==
  /\ ev.kind = "reject" => pc # "send" /\ ExactHit(store, EvItem)
  /\ ev.kind \in {"reject", "post"} => ev.prev # "rejected"

\* C9: when a cycle has ended on an exception raised for one item, no item
\* behind that one is left unevaluated.
C9_FailureIsolatedPerItem ==
  (pc = "wait" /\ ev.kind = "raise") => idx >= Len(items)

\* C10: after a step in which a query or an INSERT failed on a database
\* fault, the cycle is over: the loop is not at a further item.
C10_StoreFaultEndsCycle ==
  ev.fault => pc \notin {"eval", "send"}

\* C11: news_items never holds two rows with one hash, and a call of
\* store_item for an item whose hash is stored leaves the table as it was:
\* the same rows, the stored title, link and created_at untouched.
C11_StoreItemIdempotent ==
  [][ /\ \A r1, r2 \in store' : r1.hash = r2.hash => r1 = r2
      /\ (ev'.kind = "store" /\ ExactHit(store, ev'.item[1])) => store' = store
    ]_vars

\* C11 witness: store_item was called, at a later time and with a title in
\* another spelling, for a hash that is stored.
C11_Witness ==
  /\ ev.kind = "store" /\ ~ev.fault
  /\ \E r \in store : /\ r.hash = compute_hash(EvItem.title, EvItem.link)
                      /\ r.title # EvItem.title
                      /\ r.created_at < now

InSendCall == pc \in {"send", "backoff"}

\* C12: a call of send_message_with_retry in which, from some attempt on,
\* every attempt fails with TimedOut or NetworkError comes to an end.
C12_TransientRetriesEnd ==
  []<>(~InSendCall \/ ev.kind = "retry_after")

\* C13: when an attempt has failed with an exception that is neither
\* RetryAfter nor TimedOut/NetworkError, send_message_with_retry has returned
\* without another attempt, and the for loop of the same cycle is at the item
\* behind the one that failed (or, behind the last item, the cycle is over).
C13_UnexpectedErrorMovesOn ==
  ev.kind = "send_error" =>
    /\ ~InSendCall
    /\ idx > 1 /\ items[idx - 1] = EvItem
    /\ pc = IF idx <= Len(items) THEN "eval" ELSE "wait"

\* C13 witness: the attempt that failed for good came after failed attempts
\* that were retried, and an item is left in the cycle.
C13_Witness ==
  /\ ev.kind = "send_error"
  /\ attempts > 0
  /\ pc = "eval" /\ idx <= Len(items)

\* C14: once stop_event is set, the cycle in flight goes no further than the
\* item it is at: when the for loop leaves that item, it does not start on
\* the next one.
C14_StopEndsCycleAfterCurrentItem ==
  [][(stop_event /\ idx' = idx + 1) => pc' # "eval"]_vars

EvFeeds == ev.feeds[1]

\* C15: when the fetches of a cycle have returned, the list the for loop
\* goes through holds, once each, the (title, link) pairs of every feed that
\* was fetched and parsed, and nothing else, whatever other feeds failed; the
\* loop is at the first of them, and a cycle that returns to main without an
\* exception has gone through the whole list.
C15_FeedFailureIsolated ==
  /\ (pc = "wait" /\ ev.kind # "raise") => idx > Len(items)
  /\ ev.kind = "fetch" =>
      /\ \A f \in DOMAIN EvFeeds : EvFeeds[f].ok =>
           \A i \in 1..Len(EvFeeds[f].list) :
             \E j \in 1..Len(items) : KeyOf(items[j]) = KeyOf(EvFeeds[f].list[i])
      /\ \A j \in 1..Len(items) :
           \E f \in DOMAIN EvFeeds : \E i \in 1..Len(EvFeeds[f].list) :
             /\ EvFeeds[f].ok
             /\ items[j] = [EvFeeds[f].list[i] EXCEPT
                              !.published = _normalize_published_dt(@)]
      /\ \A j, k \in 1..Len(items) : KeyOf(items[j]) = KeyOf(items[k]) => j = k
      /\ idx = 1
      /\ pc = IF items = <<>> THEN "wait" ELSE "eval"

\* C15 witness: one feed failed, the other one delivered an item, and the for
\* loop is at that item.
C15_Witness ==
  /\ ev.kind = "fetch"
  /\ \E f \in DOMAIN EvFeeds : ~EvFeeds[f].ok
  /\ \E f \in DOMAIN EvFeeds : EvFeeds[f].ok /\ Len(EvFeeds[f].list) > 0
  /\ pc = "eval" /\ Len(items) > 0

\* the list handed to the sort, and where an item stood in it
SortInput == ev.feeds[1]
FetchPos(item) == CHOOSE i \in 1..Len(SortInput) : KeyOf(SortInput[i]) = KeyOf(item)
Pub(j) == items[j].published

\* the for loop goes through a rearrangement of the fetched list
SortedIsPermutation ==
  /\ Len(items) = Len(SortInput)
  /\ \A i \in 1..Len(SortInput) : \E j \in 1..Len(items) :
       items[j] = [SortInput[i] EXCEPT !.published = _normalize_published_dt(@)]

\* items with publication time come in non-decreasing order of it; items
\* with the same publication time, and items without one, keep among
\* themselves the order in which they were fetched
SortedByTimeStable ==
  \A j, k \in 1..Len(items) : j < k =>
    /\ (Pub(j) # None /\ Pub(k) # None) => Pub(j)[1] <= Pub(k)[1]
    /\ Pub(j) = Pub(k) => FetchPos(items[j]) < FetchPos(items[k])

\* C16 as claimed: the for loop goes through the items in non-decreasing
\* order of publication time, ties keeping their fetch order, and comes to
\* every item without publication time after every item that has one.
C16_NoTimestampLast ==
  ev.kind = "sort" =>
    /\ SortedIsPermutation
    /\ SortedByTimeStable
    /\ \A j, k \in 1..Len(items) :
         (Pub(j) # None /\ Pub(k) = None) => j < k

\* C16 amended: the for loop goes through the items in non-decreasing order
\* of publication time, ties keeping their fetch order, and comes to an item
\* without publication time as if it were published at the time of the sort:
\* after the items published before that time, before the items published
\* after it.
C16_NoTimestampSortsAsNow ==
  ev.kind = "sort" =>
    /\ SortedIsPermutation
    /\ SortedByTimeStable
    /\ \A j, k \in 1..Len(items) :
         (Pub(j) # None /\ Pub(k) = None) =>
            /\ Pub(j)[1] < now => j < k
            /\ Pub(j)[1] > now => k < j

\* C16 witness: the sorted list holds two items of one publication time, two
\* items without publication time, and an item dated in the future behind
\* an item without publication time.
C16_Witness ==
  /\ ev.kind = "sort"
  /\ \E j, k \in 1..Len(items) : j < k /\ Pub(j) = None /\ Pub(k) # None
  /\ \E j, k \in 1..Len(items) : j < k /\ Pub(j) = Pub(k)
                                  /\ FetchPos(items[j]) > 1

TextResult == textOut[1]

\* lower case, no whitespace but single spaces between words
InNormalForm(text) ==
  /\ \A i \in 1..Len(text) : text[i] \in {"a", " "}
  /\ text # <<>> => text[1] # " " /\ text[Len(text)] # " "
  /\ \A i \in 1..(Len(text) - 1) : ~(text[i] = " " /\ text[i + 1] = " ")

\* C17: normalize_text returns, for every title and the empty one too, a
\* text in normal form that normalize_text leaves as it is; and two (title,
\* link) pairs with the same normalized title and the same stripped link get
\* the same hash.
C17_NormalizeIdempotentHashDeterministic ==
  textOut # None =>
    /\ InNormalForm(TextResult.norm1)
    /\ TextResult.again1 = TextResult.norm1
    /\ (/\ TextResult.norm1 = TextResult.norm2
        /\ Strip(textIn.link1) = Strip(textIn.link2))
         => TextResult.hash1 = TextResult.hash2

\* C17 witness: two titles that differ in case and whitespace, and two links
\* that differ in surrounding whitespace, got one hash.
C17_Witness ==
  /\ textOut # None
  /\ textIn.title1 # textIn.title2 /\ textIn.link1 # textIn.link2
  /\ Len(textIn.title1) = 4 /\ textIn.title1[1] = "A"
  /\ TextResult.norm1 # textIn.title1
  /\ TextResult.hash1 = TextResult.hash2

\* C18: while an item is in the hands of send_message_with_retry, its title
\* and link are not empty, its hash is not in news_items, no title stored
\* within the last FUZZY_LOOKBACK_MINUTES has a similarity ratio at or above
\* SIM_THRESHOLD with its title, its publication time is absent or not before
\* the boot cutoff, and should_publish accepts it.
C18_SendPreconditions ==
  InSendCall =>
    /\ Len(Cur.title) > 0 /\ Len(Cur.link) > 0
    /\ compute_hash(Cur.title, Cur.link) \notin {r.hash : r \in store}
    /\ \A r \in store : Recent(r) => ~Similar(Cur.title, r.title)
    /\ Cur.published = None \/ Cur.published[1] >= BOT_STARTED_AT - BOOT_LOOKBACK_MINUTES
    /\ should_publish(Cur)[1]

\* C18 witness: an item is being sent, after a failed attempt, while a title
\* similar to its own is stored in a row older than FUZZY_LOOKBACK_MINUTES.
C18_Witness ==
  /\ pc = "send" /\ attempts > 0
  /\ \E r \in store : Similar(Cur.title, r.title) /\ ~Recent(r)

\* C19: when send_message_with_retry has returned for an accepted item, be it
\* delivered or abandoned (unexpected error, no channel target), the item has
\* its row in news_items; and an item whose delivery was abandoned is never
\* handed to send_message_with_retry in a later cycle.
C19_AbandonedStoredNeverRetried ==
  /\ ev.kind \in {"sent", "send_error", "no_target"} => ExactHit(store, EvItem)
  /\ ~(pc = "send" /\ Watched(Cur) /\ outcome = "abandoned")

\* how many of the four +1 signals an item has
SigPlusOnes ==
    (IF SigUk THEN 1 ELSE 0) + (IF SigNumber THEN 1 ELSE 0)
  + (IF SigSource THEN 1 ELSE 0) + (IF SigMacro THEN 1 ELSE 0)

\* C20: should_publish accepts every item with a whitelist hit, whatever its
\* score and blacklist status; it rejects every item with a blacklist hit and
\* no whitelist hit with reason "blacklist", the score of such an item being
\* at most 1; and it gives reason "low_impact" only to items with neither hit
\* and fewer than three of the four +1 signals.
C20_GateCases ==
  gateResult # None =>
    LET ok == gateResult[1][1]
        score == gateResult[1][2]
        reason == gateResult[1][3]
    IN  /\ SigWhitelist => ok
        /\ (SigBlacklist /\ ~SigWhitelist) =>
              ~ok /\ reason = "blacklist" /\ score <= 1
        /\ reason = "low_impact" =>
              ~SigBlacklist /\ ~SigWhitelist /\ SigPlusOnes < 3

\* C20 witness: an item with a blacklist and a whitelist hit and a negative
\* score was accepted.
C20_Witness ==
  /\ gateResult # None
  /\ SigBlacklist /\ SigWhitelist
  /\ gateResult[1][2] < 0
  /\ gateResult[1][1]
====
